---- MODULE Spec2Model ----
(***************************************************************************)
(* State-machine model of calibration::Calibration                         *)
(* (include/rgbd_calibration/calibration.h,                                *)
(*  src/rgbd_calibration/calibration.cpp).                                 *)
(*                                                                         *)
(* The public operations are called one after the other by a single        *)
(* driver thread.  perform() and optimize() are split at the calls they    *)
(* make, so that the order of those calls is observable, and the           *)
(* "#pragma omp parallel for" loop of optimize() is split per iteration    *)
(* into its private part and its critical section.                         *)
(*                                                                         *)
(* The sensors and the two undistortion models are taken as set by the     *)
(* driver (setColorSensor, setDepthSensor, setLocalModel, setGlobalModel)  *)
(* before the first state; what remains of the color sensor is whether it  *)
(* has a parent.  Vectors are 1-based here: index k of the model is index  *)
(* k-1 of the C++ vector.                                                  *)
(***************************************************************************)
EXTENDS Integers, Sequences, FiniteSets, TLC

\* ------------------------------------------------------------------ bounds
MaxLen == 2         \* longest data_vec_ and longest cb_views_vec_
MaxDepthData == 4   \* longest depth_data_vec_

MaxSolves == 2      \* most calls of optimizeAll (SpecSolve)
MaxSize == 2        \* largest SIZE of a global polynomial (SpecSolve, SpecCell)
MaxFrames == 11     \* longest data_vec_ of estimateInitialTransform (SpecInitial)

\* ------------------------------------------------------- program constants
MaxInitViews == 10  \* cb_views_vec.size() < 10

VARIABLES
  color_sensor_,                   \* "noparent" | "parent"
  estimate_depth_und_model_,
  estimate_initial_trasform_,
  depth_undistortion_estimation_,  \* the estimator object, or the null one
  data_vec_,
  cb_views_vec_,
  depth_data_vec_,
  pose,                            \* what wrote the color sensor pose last
  pc,                              \* position of the driver
  i,                               \* index of the running sequential loop
  init_views,                      \* local cb_views_vec of estimateInitialTransform
  calib,                           \* local calib of the running estimateTransform
  iter,                            \* state of each iteration of the parallel loop
  priv,                            \* und_cb_views of each iteration (private)
  und_cb_views_vec,                \* local vector of optimize()
  \* history variables
  und_src,       \* the index each element of und_cb_views_vec was built from
  calls,         \* the calls made so far by the running perform() / optimize()
  optArg,        \* the vector handed to the optimizer by the running optimize()
  countBefore,   \* non-null views when the running undistortion pipeline began
  dropped,       \* the indices of the slots perform() has reset
  localDone,     \* estimateLocalModel has completed in some perform()
  reverseDone,   \* estimateLocalModelReverse has completed in some perform()
  fault,         \* the invalid access the process died on, if it did
  \* optimizeAll in detail (SpecSolve) and the derived cell (SpecCell)
  MIN_DEGREE,        \* MathTraits<GlobalPolynomial>::MinDegree
  SIZE,              \* MathTraits<GlobalPolynomial>::Size
  layout,            \* which index of polynomial(a, b) runs fastest in memory
  intrinsicMatrix,   \* <<fx, cx>> of depth_sensor_->cameraModel()
  depth_intrinsics_, \* <<fx, cx>> of depth_intrinsics_
  global_matrix_,    \* the coefficients of the 2 x 2 global model, as in memory
  transform,         \* local of optimizeAll: the pose parameter block
  delta,             \* local of optimizeAll: <<delta[0], delta[2]>>
  solve_pc,          \* position inside optimizeAll
  nSolve,            \* calls of optimizeAll so far
  snap,              \* history: pose and global model when the solve began
  functor_x,         \* x of TransformDistortionError::operator(), last evaluation
  \* addData_ in detail (SpecData)
  NDEBUG,            \* the build defines NDEBUG: assert() expands to nothing
  ratio_,            \* the down-sample ratio
  ratio_set,         \* history: setDownSampleRatio has returned
  cloud,             \* the cloud handed to addData
  depth_data         \* the depth data of the RGBDData pushed back last

vars == <<color_sensor_, estimate_depth_und_model_, estimate_initial_trasform_,
          depth_undistortion_estimation_, data_vec_, cb_views_vec_,
          depth_data_vec_, pose, pc, i, init_views, calib, iter, priv,
          und_cb_views_vec, und_src, calls, optArg, countBefore, dropped,
          localDone, reverseDone, fault, MIN_DEGREE, SIZE, layout,
          intrinsicMatrix, depth_intrinsics_, global_matrix_, transform, delta,
          solve_pc, nSolve, snap, functor_x, NDEBUG, ratio_, ratio_set, cloud,
          depth_data>>

\* variable groups used in UNCHANGED
config == <<color_sensor_, estimate_depth_und_model_, estimate_initial_trasform_>>
stores == <<data_vec_, cb_views_vec_, depth_data_vec_>>
ploop == <<i, init_views, calib, countBefore>>
oloop == <<iter, priv, und_cb_views_vec, und_src, optArg>>
fits == <<localDone, reverseDone>>
shape == <<MIN_DEGREE, SIZE, layout>>
solver == <<shape, intrinsicMatrix, depth_intrinsics_, global_matrix_, transform,
            delta, solve_pc, nSolve, snap, functor_x>>
sampler == <<NDEBUG, ratio_, ratio_set, cloud, depth_data>>
detail == <<solver, sampler>>

\* ------------------------------------------------------------------ values
NoPlane == <<"none", 0>>
NoCloud == <<"none", 0>>
GarbagePlane == <<"garbage", 0>>
GarbageCloud == <<"garbage", 0>>

\* an empty CheckerboardViews::Ptr
NullView ==
  [valid |-> FALSE, frame |-> 0, plane |-> NoPlane, cloud |-> NoCloud,
   undistorted |-> FALSE]

\* a CheckerboardViews on the data of frame f, with depth plane p
View(f, p) ==
  [valid |-> TRUE, frame |-> f, plane |-> p, cloud |-> <<"raw", f>>,
   undistorted |-> FALSE]

\* an empty DepthUndistortionEstimation::Ptr
NullEstimation == [isnull |-> TRUE, data |-> {}]

\* a PlaneBasedExtrinsicCalibration nothing was added to
NoCalib == [size |-> 0, obs |-> <<>>]

\* what may be read through depth_data_vec_[k] when k is past the end
GarbageDepthData ==
  { [frame |-> 0, plane_extracted_ |-> b, estimated_plane_ |-> GarbagePlane,
     undistorted_cloud_ |-> GarbageCloud] : b \in BOOLEAN }

\* the values depth_data_vec_[k] can yield
DepthDataAt(k) ==
  IF k \in DOMAIN depth_data_vec_ THEN {depth_data_vec_[k]} ELSE GarbageDepthData

NonNull(vec) == { k \in DOMAIN vec : vec[k].valid }

\* no snapshot taken
NoSnap == [pose |-> 0, global |-> <<>>, K |-> <<>>]

\* the frames pushed back by n calls of addData
Frames(n) == [k \in 1..n |-> k]

\* no cloud: nothing was handed to addData, nothing was stored
NoData == [width |-> 0, height |-> 0, is_dense |-> TRUE, points |-> <<>>]

\* the clouds are not looked into: the ratio is 1 and addData stores what it
\* is given
SamplerAtRest ==
  /\ NDEBUG = TRUE
  /\ ratio_ = 1
  /\ ratio_set = TRUE
  /\ cloud = NoData
  /\ depth_data = NoData

\* optimizeAll is not looked into: its variables keep these values
SolverAtRest ==
  /\ MIN_DEGREE = 0
  /\ SIZE = 1
  /\ layout = "b_fastest"
  /\ intrinsicMatrix = <<1, 0>>
  /\ depth_intrinsics_ = <<1, 0>>
  /\ global_matrix_ = <<0, 0, 0, 0>>
  /\ transform = 0
  /\ delta = <<1, 0>>
  /\ solve_pc = "idle"
  /\ nSolve = 0
  /\ snap = NoSnap
  /\ functor_x = <<>>

\* -------------------------------------------------------------------- Init
\* Calibration declares no constructor: the flags are not initialised, the
\* estimator pointer and the vectors are empty.
Init ==
  /\ SolverAtRest
  /\ SamplerAtRest
  /\ color_sensor_ \in {"noparent", "parent"}
  /\ estimate_depth_und_model_ \in BOOLEAN
  /\ estimate_initial_trasform_ \in BOOLEAN
  /\ depth_undistortion_estimation_ = NullEstimation
  /\ data_vec_ = <<>>
  /\ cb_views_vec_ = <<>>
  /\ depth_data_vec_ = <<>>
  /\ pose = "given"
  /\ pc = "idle"
  /\ i = 0
  /\ init_views = <<>>
  /\ calib = NoCalib
  /\ iter = <<>>
  /\ priv = <<>>
  /\ und_cb_views_vec = <<>>
  /\ und_src = <<>>
  /\ calls = <<>>
  /\ optArg = <<>>
  /\ countBefore = 0
  /\ dropped = {}
  /\ localDone = FALSE
  /\ reverseDone = FALSE
  /\ fault = "none"

\* the process dies on an invalid access
Abort(f) ==
  /\ pc' = "aborted"
  /\ fault' = f

\* ---------------------------------------------------------------- setters
setColorSensor ==
  /\ pc = "idle"
  /\ \E p \in {"noparent", "parent"} : color_sensor_' = p
  /\ UNCHANGED <<estimate_depth_und_model_, estimate_initial_trasform_,
                 depth_undistortion_estimation_, stores, pose, pc, ploop,
                 oloop, calls, dropped, fits, fault>>
  /\ UNCHANGED detail

setEstimateInitialTransform ==
  /\ pc = "idle"
  /\ \E b \in BOOLEAN : estimate_initial_trasform_' = b
  /\ UNCHANGED <<color_sensor_, estimate_depth_und_model_,
                 depth_undistortion_estimation_, stores, pose, pc, ploop,
                 oloop, calls, dropped, fits, fault>>
  /\ UNCHANGED detail

\* the flag, and a new estimator that holds no depth data
initDepthUndistortionModel ==
  /\ pc = "idle"
  /\ estimate_depth_und_model_' = TRUE
  /\ depth_undistortion_estimation_' = [isnull |-> FALSE, data |-> {}]
  /\ UNCHANGED <<color_sensor_, estimate_initial_trasform_, stores, pose, pc,
                 ploop, oloop, calls, dropped, fits, fault>>
  /\ UNCHANGED detail

\* addData_: a new RGBDData with id data_vec_.size() + 1 is pushed back
addData ==
  /\ pc = "idle"
  /\ Len(data_vec_) < MaxLen
  /\ data_vec_' = Append(data_vec_, Len(data_vec_) + 1)
  /\ UNCHANGED <<config, depth_undistortion_estimation_, cb_views_vec_,
                 depth_data_vec_, pose, pc, ploop, oloop, calls,
                 dropped, fits, fault>>
  /\ UNCHANGED detail

\* the data the caller's views were extracted from: a frame of its own
CallerFrame == 0

\* the caller's view is pushed back
addCheckerboardViews ==
  /\ pc = "idle"
  /\ Len(cb_views_vec_) < MaxLen
  /\ cb_views_vec_' =
       Append(cb_views_vec_, View(CallerFrame, <<"extracted", CallerFrame>>))
  /\ UNCHANGED <<config, depth_undistortion_estimation_, data_vec_,
                 depth_data_vec_, pose, pc, ploop, oloop, calls, dropped, fits,
                 fault>>
  /\ UNCHANGED detail

\* ------------------------------------------------------ estimateTransform
\* the addData calls of the loop over cb_views_vec[k..], index being the
\* running observation index (0-based, as in the code)
\* the loop with the slot number used as the index of the observations
RECURSIVE CalibObs_IndexIsSlot(_, _, _)
CalibObs_IndexIsSlot(vec, k, index) ==
  IF k > Len(vec) THEN <<>>
  ELSE IF vec[k].valid
    THEN <<[index |-> k - 1, sensor |-> "color", view |-> vec[k]],
           [index |-> k - 1, sensor |-> "depth", view |-> vec[k]]>>
         \o CalibObs_IndexIsSlot(vec, k + 1, index + 1)
    ELSE CalibObs_IndexIsSlot(vec, k + 1, index)

RECURSIVE CalibObs(_, _, _)
CalibObs(vec, k, index) ==
  IF k > Len(vec) THEN <<>>
  ELSE IF vec[k].valid
    THEN <<[index |-> index, sensor |-> "color", view |-> vec[k]],
           [index |-> index, sensor |-> "depth", view |-> vec[k]]>>
         \o CalibObs(vec, k + 1, index + 1)
    ELSE CalibObs(vec, k + 1, index)

\* estimateTransform without the final setSize(index): the size stays the
\* length of the vector, empty slots included
EstimateTransform_KeepsFirstSize(vec) ==
  [size |-> Len(vec), obs |-> CalibObs(vec, 1, 0)]

\* the PlaneBasedExtrinsicCalibration that estimateTransform builds and runs
EstimateTransform(vec) ==
  [size |-> Len(CalibObs(vec, 1, 0)) \div 2, obs |-> CalibObs(vec, 1, 0)]

\* calib.perform(): the pose it leaves in the color sensor.  With fewer than
\* three observed planes it returns all the same, and the pose is undefined
PlaneBasedPerform(c) == IF c.size < 3 THEN "undefined" ELSE "estimated"

\* ----------------------------------------------------------------- perform
\* perform() that runs the initial estimate only when the color sensor has no
\* parent, whatever estimate_initial_trasform_ says
PerformBegin_OnlyWithoutParent ==
  /\ pc = "idle"
  /\ estimate_depth_und_model_ =>
       Len(depth_data_vec_) + Len(data_vec_) <= MaxDepthData
  /\ calls' = <<>>
  /\ i' = 0
  /\ init_views' = <<>>
  /\ pc' = IF color_sensor_ = "noparent" THEN "p_init" ELSE "p_branch"
  /\ UNCHANGED <<config, depth_undistortion_estimation_, stores, pose, calib,
                 countBefore, oloop, dropped, fits, fault>>
  /\ UNCHANGED detail

\* perform(), line 192: the initial estimate is run when the flag is set or
\* the color sensor has no parent
PerformBegin ==
  /\ pc = "idle"
  /\ estimate_depth_und_model_ =>
       Len(depth_data_vec_) + Len(data_vec_) <= MaxDepthData
  /\ calls' = <<>>
  /\ i' = 0
  /\ init_views' = <<>>
  /\ pc' = IF estimate_initial_trasform_ \/ color_sensor_ = "noparent"
             THEN "p_init" ELSE "p_branch"
  /\ UNCHANGED <<config, depth_undistortion_estimation_, stores, pose, calib,
                 countBefore, oloop, dropped, fits, fault>>
  /\ UNCHANGED detail

\* the values rand() returns
Rands == {0, 1}

\* the loop of estimateInitialTransform without the test of
\* cb_views_vec.size() against 10
InitialDraw_NoCap ==
  /\ pc = "p_init"
  /\ i < Len(data_vec_)
  /\ \E r \in Rands, found \in BOOLEAN :
       LET index == (r % Len(data_vec_)) + 1
       IN init_views' =
            IF found
              THEN Append(init_views,
                          View(data_vec_[index],
                               <<"extracted", data_vec_[index]>>))
              ELSE init_views
  /\ i' = i + 1
  /\ UNCHANGED <<config, depth_undistortion_estimation_, stores, pose, pc,
                 calib, countBefore, oloop, calls, dropped, fits, fault>>
  /\ UNCHANGED detail

\* estimateInitialTransform, one iteration of the loop of lines 289-294:
\* the frame at rand() % data_vec_.size(), from which extract() appends zero
\* or one view
InitialDraw ==
  /\ pc = "p_init"
  /\ i < Len(data_vec_) /\ Len(init_views) < MaxInitViews
  /\ \E r \in Rands, found \in BOOLEAN :
       LET index == (r % Len(data_vec_)) + 1
       IN init_views' =
            IF found
              THEN Append(init_views,
                          View(data_vec_[index],
                               <<"extracted", data_vec_[index]>>))
              ELSE init_views
  /\ i' = i + 1
  /\ UNCHANGED <<config, depth_undistortion_estimation_, stores, pose, pc,
                 calib, countBefore, oloop, calls, dropped, fits, fault>>
  /\ UNCHANGED detail

\* estimateInitialTransform that gives up, and the run with it, when fewer
\* than three views were accepted
InitialEstimate_NeedsThreeViews ==
  /\ pc = "p_init"
  /\ ~(i < Len(data_vec_) /\ Len(init_views) < MaxInitViews)
  /\ IF Len(init_views) < 3
       THEN /\ Abort("too_few_views")
            /\ UNCHANGED <<calib, pose, calls, init_views, i>>
       ELSE /\ calib' = EstimateTransform(init_views)
            /\ pose' = PlaneBasedPerform(calib')
            /\ calls' = Append(calls, "estimateInitialTransform")
            /\ init_views' = <<>>
            /\ i' = 0
            /\ pc' = "p_branch"
            /\ UNCHANGED fault
  /\ UNCHANGED <<config, depth_undistortion_estimation_, stores, countBefore,
                 oloop, dropped, fits>>
  /\ UNCHANGED detail

\* estimateInitialTransform, line 296: estimateTransform(cb_views_vec)
InitialEstimate ==
  /\ pc = "p_init"
  /\ ~(i < Len(data_vec_) /\ Len(init_views) < MaxInitViews)
  /\ calib' = EstimateTransform(init_views)
  /\ pose' = PlaneBasedPerform(calib')
  /\ calls' = Append(calls, "estimateInitialTransform")
  /\ init_views' = <<>>
  /\ i' = 0
  /\ pc' = "p_branch"
  /\ UNCHANGED <<config, depth_undistortion_estimation_, stores, countBefore,
                 oloop, dropped, fits, fault>>
  /\ UNCHANGED detail

\* extractAll: one slot per frame of data_vec_, empty where no checkerboard
\* was found (found[k] false); image-only extraction gives no depth plane
ExtractAll(found) ==
  [k \in 1..Len(data_vec_) |->
     IF found[k] THEN View(data_vec_[k], NoPlane) ELSE NullView]

\* perform(), lines 195-204
PerformExtract ==
  /\ pc = "p_branch"
  /\ calib' = NoCalib
  /\ IF ~estimate_depth_und_model_
       THEN /\ pc' = "p_estimate"
            /\ UNCHANGED <<cb_views_vec_, countBefore, i>>
       ELSE /\ \E found \in [1..Len(data_vec_) -> BOOLEAN] :
                 cb_views_vec_' = ExtractAll(found)
            /\ countBefore' = Cardinality(NonNull(cb_views_vec_'))
            /\ i' = 1
            /\ pc' = "p_ingest"
  /\ UNCHANGED <<config, depth_undistortion_estimation_, data_vec_,
                 depth_data_vec_, pose, init_views, oloop, calls, dropped, fits,
                 fault>>
  /\ UNCHANGED detail

\* addDepthData: the DepthData of the frame of a view, no plane estimated yet
AddDepthData(view) ==
  [frame |-> view.frame, plane_extracted_ |-> FALSE,
   estimated_plane_ |-> NoPlane, undistorted_cloud_ |-> NoCloud]

\* perform(), lines 206-212, iteration i: *cb_views_vec_[i] is dereferenced
\* without a test, then the estimator is
PerformIngest ==
  /\ pc = "p_ingest"
  /\ i <= Len(cb_views_vec_)
  /\ IF ~cb_views_vec_[i].valid
       THEN /\ Abort("ingest_null_view")
            /\ UNCHANGED <<depth_data_vec_, depth_undistortion_estimation_,
                           calls, i>>
       ELSE IF depth_undistortion_estimation_.isnull
         THEN /\ Abort("null_estimation")
              /\ UNCHANGED <<depth_data_vec_, depth_undistortion_estimation_,
                             calls, i>>
         ELSE /\ depth_data_vec_' =
                   Append(depth_data_vec_, AddDepthData(cb_views_vec_[i]))
              /\ depth_undistortion_estimation_' =
                   [depth_undistortion_estimation_ EXCEPT
                      !.data = @ \cup {Len(depth_data_vec_) + 1}]
              /\ calls' = Append(calls, "addDepthData")
              /\ i' = i + 1
              /\ UNCHANGED <<pc, fault>>
  /\ UNCHANGED <<config, data_vec_, cb_views_vec_, pose, init_views, calib,
                 countBefore, oloop, dropped, fits>>
  /\ UNCHANGED detail

\* estimateLocalModel followed at once by estimateGlobalModel: the reverse
\* pass is skipped
EstimateLocalModel_SkipsReverse ==
  /\ pc = "p_ingest"
  /\ i > Len(cb_views_vec_)
  /\ IF depth_undistortion_estimation_.isnull
       THEN /\ Abort("null_estimation")
            /\ UNCHANGED <<calls, localDone>>
       ELSE /\ localDone' = TRUE
            /\ calls' = Append(calls, "estimateLocalModel")
            /\ pc' = "p_global"
            /\ UNCHANGED fault
  /\ UNCHANGED <<config, depth_undistortion_estimation_, stores, pose, ploop,
                 oloop, dropped, reverseDone>>
  /\ UNCHANGED detail

\* perform(), line 215
EstimateLocalModel ==
  /\ pc = "p_ingest"
  /\ i > Len(cb_views_vec_)
  /\ IF depth_undistortion_estimation_.isnull
       THEN /\ Abort("null_estimation")
            /\ UNCHANGED <<calls, localDone>>
       ELSE /\ localDone' = TRUE
            /\ calls' = Append(calls, "estimateLocalModel")
            /\ pc' = "p_reverse"
            /\ UNCHANGED fault
  /\ UNCHANGED <<config, depth_undistortion_estimation_, stores, pose, ploop,
                 oloop, dropped, reverseDone>>
  /\ UNCHANGED detail

\* the undistortion and the plane re-fit of one DepthData
Refit(d, ok) ==
  [d EXCEPT !.plane_extracted_ = ok,
            !.estimated_plane_ = <<"est", d.frame>>,
            !.undistorted_cloud_ = <<"und", d.frame>>]

\* perform(), line 217: every DepthData the estimator holds is undistorted
\* and its plane re-fitted; the re-fit of each may fail
EstimateLocalModelReverse ==
  /\ pc = "p_reverse"
  /\ \E ok \in [depth_undistortion_estimation_.data -> BOOLEAN] :
       depth_data_vec_' =
         [k \in DOMAIN depth_data_vec_ |->
            IF k \in depth_undistortion_estimation_.data
              THEN Refit(depth_data_vec_[k], ok[k])
              ELSE depth_data_vec_[k]]
  /\ reverseDone' = TRUE
  /\ calls' = Append(calls, "estimateLocalModelReverse")
  /\ pc' = "p_global"
  /\ UNCHANGED <<config, depth_undistortion_estimation_, data_vec_,
                 cb_views_vec_, pose, ploop, oloop, dropped, localDone,
                 fault>>
  /\ UNCHANGED detail

\* perform(), line 219
EstimateGlobalModel ==
  /\ pc = "p_global"
  /\ calls' = Append(calls, "estimateGlobalModel")
  /\ i' = 1
  /\ pc' = "p_drop"
  /\ UNCHANGED <<config, depth_undistortion_estimation_, stores, pose,
                 init_views, calib, countBefore, oloop, dropped, fits,
                 fault>>
  /\ UNCHANGED detail

\* lines 224-227: the slot after the test of plane_extracted_
DropOrKeep(view, d) ==
  IF d.plane_extracted_
    THEN [view EXCEPT !.plane = d.estimated_plane_]
    ELSE NullView

\* perform(), lines 221-228, iteration i.  An empty slot is dereferenced at
\* line 223: the process dies there, or, where the reference is only bound
\* and the plane was not extracted, the reset of line 227 goes through.
PerformDrop ==
  /\ pc = "p_drop"
  /\ i <= Len(cb_views_vec_)
  /\ \E d \in DepthDataAt(i) :
       \/ /\ ~cb_views_vec_[i].valid
          /\ Abort("drop_null_view")
          /\ UNCHANGED <<cb_views_vec_, dropped, calls, i>>
       \/ /\ cb_views_vec_[i].valid \/ ~d.plane_extracted_
          /\ cb_views_vec_' =
               [cb_views_vec_ EXCEPT ![i] = DropOrKeep(cb_views_vec_[i], d)]
          /\ dropped' = IF d.plane_extracted_ THEN dropped ELSE dropped \cup {i}
          /\ calls' = Append(calls, "drop")
          /\ i' = i + 1
          /\ UNCHANGED <<pc, fault>>
  /\ UNCHANGED <<config, depth_undistortion_estimation_, data_vec_,
                 depth_data_vec_, pose, init_views, calib, countBefore, oloop,
                 fits>>
  /\ UNCHANGED detail

\* perform(), line 276: estimateTransform(cb_views_vec_)
PerformEstimate ==
  /\ \/ pc = "p_estimate"
     \/ pc = "p_drop" /\ i > Len(cb_views_vec_)
  /\ calib' = EstimateTransform(cb_views_vec_)
  /\ pose' = PlaneBasedPerform(calib')
  /\ calls' = Append(calls, "estimateTransform")
  /\ pc' = "p_return"
  /\ UNCHANGED <<config, depth_undistortion_estimation_, stores, i, init_views,
                 countBefore, oloop, dropped, fits, fault>>
  /\ UNCHANGED detail

\* perform() returns: its locals are gone
PerformReturn ==
  /\ pc = "p_return"
  /\ pc' = "idle"
  /\ i' = 0
  /\ init_views' = <<>>
  /\ calib' = NoCalib
  /\ countBefore' = 0
  /\ calls' = <<>>
  /\ UNCHANGED <<config, depth_undistortion_estimation_, stores, pose, oloop,
                 dropped, fits, fault>>
  /\ UNCHANGED detail

\* optimize() that does not test the flag and always takes the else branch
OptimizeBegin_IgnoresFlag ==
  /\ pc = "idle"
  /\ calls' = <<>>
  /\ pc' = "o_transform"
  /\ UNCHANGED <<config, depth_undistortion_estimation_, stores, pose, ploop,
                 oloop, dropped, fits, fault>>
  /\ UNCHANGED detail

\* optimize(), lines 773-779: the branch on the flag, and the start of the
\* parallel loop with one iteration per slot of cb_views_vec_
OptimizeBegin ==
  /\ pc = "idle"
  /\ calls' = <<>>
  /\ IF estimate_depth_und_model_
       THEN /\ iter' = [k \in DOMAIN cb_views_vec_ |-> "todo"]
            /\ priv' = [k \in DOMAIN cb_views_vec_ |-> NullView]
            /\ pc' = "o_loop"
       ELSE /\ UNCHANGED <<iter, priv>>
            /\ pc' = "o_transform"
  /\ UNCHANGED <<config, depth_undistortion_estimation_, stores, pose, ploop,
                 und_cb_views_vec, und_src, optArg, dropped, fits, fault>>
  /\ UNCHANGED detail

\* lines 787-803: the copy of a view with the undistorted cloud and the
\* re-estimated plane inliers of the DepthData d
UndistortedCopy(view, d) ==
  [view EXCEPT !.cloud = d.undistorted_cloud_,
               !.plane = d.estimated_plane_,
               !.undistorted = TRUE]

\* the copy loop that puts a new view into an empty slot instead of skipping
\* it
OptimizeBuild_RefillsEmptySlot(k) ==
  /\ pc = "o_loop"
  /\ iter[k] = "todo"
  /\ IF ~cb_views_vec_[k].valid
       THEN /\ cb_views_vec_' =
                 [cb_views_vec_ EXCEPT ![k] = View(CallerFrame, NoPlane)]
            /\ iter' = [iter EXCEPT ![k] = "done"]
            /\ UNCHANGED <<priv, pc, fault>>
       ELSE /\ UNCHANGED cb_views_vec_
            /\ \/ /\ k \notin DOMAIN depth_data_vec_
                  /\ Abort("depth_data_range")
                  /\ UNCHANGED <<iter, priv>>
               \/ /\ \E d \in DepthDataAt(k) :
                       priv' = [priv EXCEPT
                                  ![k] = UndistortedCopy(cb_views_vec_[k], d)]
                  /\ iter' = [iter EXCEPT ![k] = "built"]
                  /\ UNCHANGED <<pc, fault>>
  /\ UNCHANGED <<config, depth_undistortion_estimation_, data_vec_,
                 depth_data_vec_, pose, ploop, und_cb_views_vec, und_src,
                 optArg, calls, dropped, fits>>
  /\ UNCHANGED detail

\* lines 781-803 of iteration k, run by some worker: nothing shared is
\* written.  depth_data_vec_[k] is read without a test of the range: past
\* the end the process dies or goes on with what it found there.
OptimizeBuild(k) ==
  /\ pc = "o_loop"
  /\ iter[k] = "todo"
  /\ IF ~cb_views_vec_[k].valid
       THEN /\ iter' = [iter EXCEPT ![k] = "done"]
            /\ UNCHANGED <<priv, pc, fault>>
       ELSE \/ /\ k \notin DOMAIN depth_data_vec_
               /\ Abort("depth_data_range")
               /\ UNCHANGED <<iter, priv>>
            \/ /\ \E d \in DepthDataAt(k) :
                    priv' = [priv EXCEPT ![k] = UndistortedCopy(cb_views_vec_[k], d)]
               /\ iter' = [iter EXCEPT ![k] = "built"]
               /\ UNCHANGED <<pc, fault>>
  /\ UNCHANGED <<config, depth_undistortion_estimation_, stores, pose, ploop,
                 und_cb_views_vec, und_src, optArg, calls, dropped,
                 fits>>
  /\ UNCHANGED detail

\* lines 805-806 of iteration k: the critical section
OptimizePush(k) ==
  /\ pc = "o_loop"
  /\ iter[k] = "built"
  /\ und_cb_views_vec' = Append(und_cb_views_vec, priv[k])
  /\ und_src' = Append(und_src, k)
  /\ iter' = [iter EXCEPT ![k] = "done"]
  /\ UNCHANGED <<config, depth_undistortion_estimation_, stores, pose, pc,
                 ploop, priv, optArg, calls, dropped, fits, fault>>
  /\ UNCHANGED detail

\* a step of some worker of the parallel loop
OptimizeWorker ==
  \E k \in DOMAIN iter : OptimizeBuild(k) \/ OptimizePush(k)

\* line 809 and optimizeAll (lines 639-766) on the working copies
OptimizeAll ==
  /\ pc = "o_loop"
  /\ \A k \in DOMAIN iter : iter[k] = "done"
  /\ optArg' = und_cb_views_vec
  /\ calls' = Append(calls, "optimizeAll")
  /\ pose' = "optimized"
  /\ pc' = "o_return"
  /\ UNCHANGED <<config, depth_undistortion_estimation_, stores, ploop, iter,
                 priv, und_cb_views_vec, und_src, dropped, fits, fault>>
  /\ UNCHANGED detail

\* line 813 and optimizeTransform (lines 385-432) on cb_views_vec_: every
\* slot is dereferenced without a test
OptimizeTransform ==
  /\ pc = "o_transform"
  /\ IF \E k \in DOMAIN cb_views_vec_ : ~cb_views_vec_[k].valid
       THEN /\ Abort("optimizeTransform_null_view")
            /\ UNCHANGED <<pose, calls, optArg>>
       ELSE /\ optArg' = cb_views_vec_
            /\ calls' = Append(calls, "optimizeTransform")
            /\ pose' = "optimized"
            /\ pc' = "o_return"
            /\ UNCHANGED fault
  /\ UNCHANGED <<config, depth_undistortion_estimation_, stores, ploop, iter,
                 priv, und_cb_views_vec, und_src, dropped, fits>>
  /\ UNCHANGED detail

\* optimize() returns: its locals are gone
OptimizeReturn ==
  /\ pc = "o_return"
  /\ pc' = "idle"
  /\ iter' = <<>>
  /\ priv' = <<>>
  /\ und_cb_views_vec' = <<>>
  /\ und_src' = <<>>
  /\ optArg' = <<>>
  /\ calls' = <<>>
  /\ UNCHANGED <<config, depth_undistortion_estimation_, stores, pose, ploop,
                 dropped, fits, fault>>
  /\ UNCHANGED detail

\* ------------------------------------------------------------------- Next
Next ==
  \/ setColorSensor
  \/ setEstimateInitialTransform
  \/ initDepthUndistortionModel
  \/ addData
  \/ addCheckerboardViews
  \/ PerformBegin
  \/ InitialDraw
  \/ InitialEstimate
  \/ PerformExtract
  \/ PerformIngest
  \/ EstimateLocalModel
  \/ EstimateLocalModelReverse
  \/ EstimateGlobalModel
  \/ PerformDrop
  \/ PerformEstimate
  \/ PerformReturn
  \/ OptimizeBegin
  \/ OptimizeWorker
  \/ OptimizeAll
  \/ OptimizeTransform
  \/ OptimizeReturn

Spec == Init /\ [][Next]_vars

\* ================================================ estimateInitialTransform
\* estimateInitialTransform alone, called by perform() on data_vec_ of any
\* length up to MaxFrames
InitInitial ==
  /\ SolverAtRest
  /\ SamplerAtRest
  /\ color_sensor_ \in {"noparent", "parent"}
  /\ estimate_depth_und_model_ \in BOOLEAN
  /\ estimate_initial_trasform_ = (color_sensor_ = "parent")
  /\ depth_undistortion_estimation_ = NullEstimation
  /\ \E n \in 0..MaxFrames : data_vec_ = Frames(n)
  /\ cb_views_vec_ = <<>>
  /\ depth_data_vec_ = <<>>
  /\ pose = "given"
  /\ pc = "p_init"
  /\ i = 0
  /\ init_views = <<>>
  /\ calib = NoCalib
  /\ iter = <<>>
  /\ priv = <<>>
  /\ und_cb_views_vec = <<>>
  /\ und_src = <<>>
  /\ calls = <<>>
  /\ optArg = <<>>
  /\ countBefore = 0
  /\ dropped = {}
  /\ localDone = FALSE
  /\ reverseDone = FALSE
  /\ fault = "none"

NextInitial ==
  \/ InitialDraw
  \/ InitialEstimate

SpecInitial == InitInitial /\ [][NextInitial]_vars

\* the loop is not held up for ever
FairInitial == SpecInitial /\ WF_vars(NextInitial)

\* ============================================================ optimizeAll
\* optimizeAll step by step.  The pose stands for quaternion and translation
\* and is a number here; of the four depth intrinsics and of delta the model
\* keeps the first (fx, scaled) and the third (cx, shifted).  A polynomial is
\* the sequence of its SIZE coefficients, for the degrees MIN_DEGREE and up;
\* global_matrix_ is the memory behind dataPtr(): four polynomials in a row.

\* the variables of Spec, which the steps of optimizeAll leave alone
calibration ==
  <<config, depth_undistortion_estimation_, stores, pc, ploop, oloop, calls,
    dropped, fits, fault, sampler>>

\* Calibration in the middle of optimize(), undistortion estimation enabled
InOptimize ==
  /\ color_sensor_ = "parent"
  /\ estimate_depth_und_model_ = TRUE
  /\ estimate_initial_trasform_ = FALSE
  /\ depth_undistortion_estimation_ = [isnull |-> FALSE, data |-> {}]
  /\ data_vec_ = <<>>
  /\ cb_views_vec_ = <<>>
  /\ depth_data_vec_ = <<>>
  /\ pc = "o_loop"
  /\ i = 0
  /\ init_views = <<>>
  /\ calib = NoCalib
  /\ iter = <<>>
  /\ priv = <<>>
  /\ und_cb_views_vec = <<>>
  /\ und_src = <<>>
  /\ calls = <<>>
  /\ optArg = <<>>
  /\ countBefore = 0
  /\ dropped = {}
  /\ localDone = FALSE
  /\ reverseDone = FALSE
  /\ fault = "none"

MinDegrees == {0, 1}
Layouts == {"a_fastest", "b_fastest"}
Intrinsics == {<<1, 0>>, <<2, 1>>}
Poses == {1, 2}
Deltas == {<<1, 0>>, <<2, 1>>}

\* the place of polynomial(a, b) among the four in memory, from 0
BlockOf(a, b) == IF layout = "a_fastest" THEN a + 2 * b ELSE 2 * a + b

\* the polynomial at place k of the memory g
Block(g, k) == [j \in 1..SIZE |-> g[k * SIZE + j]]

\* model()->polynomial(a, b)
Polynomial(g, a, b) == Block(g, BlockOf(a, b))

\* the memory g with the polynomial at place k replaced by p
WithBlock(g, k, p) ==
  [n \in 1..Len(g) |->
     IF n > k * SIZE /\ n <= (k + 1) * SIZE THEN p[n - k * SIZE] ELSE g[n]]

RECURSIVE Pow(_, _)
Pow(x, n) == IF n = 0 THEN 1 ELSE x * Pow(x, n - 1)

RECURSIVE SumTo(_, _)
SumTo(f, n) == IF n = 0 THEN 0 ELSE f[n] + SumTo(f, n - 1)

\* Polynomial::evaluate
Evaluate(c, x) ==
  SumTo([j \in 1..SIZE |-> c[j] * Pow(x, MIN_DEGREE + j - 1)], SIZE)

\* A(i, j): the powers MIN_DEGREE .. DEGREE of x = i + 1, i from 0
MatrixA == [r \in 1..SIZE |-> [j \in 1..SIZE |-> Pow(r, MIN_DEGREE + j - 1)]]

\* b[i] = p2(x) + p3(x) - p1(x)
VectorB(p1, p2, p3) ==
  [r \in 1..SIZE |-> Evaluate(p2, r) + Evaluate(p3, r) - Evaluate(p1, r)]

\* A.colPivHouseholderQr().solve(b), in exact arithmetic: the x with A x = b
RECURSIVE Dot(_, _, _)
Dot(a, x, n) == IF n = 0 THEN 0 ELSE a[n] * x[n] + Dot(a, x, n - 1)

SolveQr(A, b) ==
  LET Solutions(rows, rhs) ==
        { x \in [1..SIZE -> -3..3] :
            \A r \in 1..SIZE : Dot(rows[r], x, SIZE) = rhs[r] }
  IN CHOOSE x \in UNION { Solutions(q[1], q[2]) : q \in {<<A, b>>} } : TRUE

\* x of TransformDistortionError::operator() for the parameter block gu:
\* c1, c2, c3 are read one after the other from the start of the block
FunctorX(gu) == SolveQr(MatrixA, VectorB(Block(gu, 0), Block(gu, 1), Block(gu, 2)))

\* x of optimizeAll with y = p1(x) + p2(x) - p3(x)
OptimizeAllX_MinusThird(g) ==
  SolveQr(MatrixA,
          VectorB(Polynomial(g, 1, 0), Polynomial(g, 0, 0), Polynomial(g, 0, 1)))

\* x of optimizeAll for the stored model g
OptimizeAllX(g) ==
  SolveQr(MatrixA,
          VectorB(Polynomial(g, 0, 0), Polynomial(g, 0, 1), Polynomial(g, 1, 0)))

\* lines 761-765: the delta applied to the stored depth intrinsics
ApplyDelta(di, d) == <<di[1] * d[1], di[2] + d[2]>>

\* four constant polynomials
ConstantCells(v) == [n \in 1..4 * SIZE |-> v[((n - 1) \div SIZE) + 1]]

InitSolve ==
  /\ InOptimize
  /\ SamplerAtRest
  /\ MIN_DEGREE \in MinDegrees
  /\ SIZE = MaxSize
  /\ layout \in Layouts
  /\ intrinsicMatrix \in Intrinsics
  /\ depth_intrinsics_ = intrinsicMatrix
  /\ \E v \in [1..4 -> {0, 1}] : global_matrix_ = ConstantCells(v)
  /\ pose = 0
  /\ transform = 0
  /\ delta = <<1, 0>>
  /\ solve_pc = "idle"
  /\ nSolve = 0
  /\ snap = NoSnap
  /\ functor_x = <<>>

\* setDepthSensor: depth_intrinsics_ is read from the camera model of the
\* sensor
setDepthSensor ==
  /\ solve_pc = "idle"
  /\ \E k \in Intrinsics :
       /\ intrinsicMatrix' = k
       /\ depth_intrinsics_' = k
  /\ UNCHANGED <<calibration, pose, shape, global_matrix_, transform, delta,
                 solve_pc, nSolve, snap, functor_x, NDEBUG, ratio_, ratio_set, cloud,
          depth_data>>

\* optimizeAll, lines 639-719: the pose is copied into transform, delta
\* starts at the identity, the problem is built on transform, delta and the
\* memory of the stored global model
SolveBegin ==
  /\ solve_pc = "idle"
  /\ nSolve < MaxSolves
  /\ transform' = pose
  /\ delta' = <<1, 0>>
  /\ snap' = [pose |-> pose, global |-> global_matrix_, K |-> intrinsicMatrix]
  /\ nSolve' = nSolve + 1
  /\ solve_pc' = "built"
  /\ UNCHANGED <<calibration, pose, shape, intrinsicMatrix, depth_intrinsics_,
                 global_matrix_, functor_x>>

\* line 722, ceres::Solve: the solver leaves its result in the parameter
\* blocks it was given: transform, delta and the first three polynomials of
\* the stored global model
CeresSolve ==
  /\ solve_pc = "built"
  /\ \E t \in Poses, d \in Deltas, v \in [1..3 -> {0, 1}] :
       /\ transform' = t
       /\ delta' = d
       /\ global_matrix_' =
            [n \in 1..4 * SIZE |->
               IF n <= 3 * SIZE THEN v[((n - 1) \div SIZE) + 1]
               ELSE global_matrix_[n]]
  /\ solve_pc' = "solved"
  /\ UNCHANGED <<calibration, pose, shape, intrinsicMatrix, depth_intrinsics_,
                 nSolve, snap, functor_x>>

\* lines 724-728: color_sensor_->setPose
WritePose ==
  /\ solve_pc = "solved"
  /\ pose' = transform
  /\ solve_pc' = "posed"
  /\ UNCHANGED <<calibration, shape, intrinsicMatrix, depth_intrinsics_,
                 global_matrix_, transform, delta, nSolve, snap, functor_x>>

\* lines 731-759: polynomial(1, 1) = x
WriteCell ==
  /\ solve_pc = "posed"
  /\ global_matrix_' =
       WithBlock(global_matrix_, BlockOf(1, 1), OptimizeAllX(global_matrix_))
  /\ solve_pc' = "celled"
  /\ UNCHANGED <<calibration, pose, shape, intrinsicMatrix, depth_intrinsics_,
                 transform, delta, nSolve, snap, functor_x>>

\* lines 761-765
WriteIntrinsics ==
  /\ solve_pc = "celled"
  /\ depth_intrinsics_' = ApplyDelta(depth_intrinsics_, delta)
  /\ solve_pc' = "done"
  /\ UNCHANGED <<calibration, pose, shape, intrinsicMatrix, global_matrix_,
                 transform, delta, nSolve, snap, functor_x>>

\* optimizeAll returns: its locals are gone
SolveReturn ==
  /\ solve_pc = "done"
  /\ transform' = 0
  /\ delta' = <<1, 0>>
  /\ snap' = NoSnap
  /\ solve_pc' = "idle"
  /\ UNCHANGED <<calibration, pose, shape, intrinsicMatrix, depth_intrinsics_,
                 global_matrix_, nSolve, functor_x>>

NextSolve ==
  \/ setDepthSensor
  \/ SolveBegin
  \/ CeresSolve
  \/ WritePose
  \/ WriteCell
  \/ WriteIntrinsics
  \/ SolveReturn

SpecSolve == InitSolve /\ [][NextSolve]_vars

\* ======================================================= the derived cell
\* The derivation of the fourth cell, in the functor and in optimizeAll, on
\* the same memory: three cells of any 0/1 coefficients, the fourth zero.
InitCell ==
  /\ InOptimize
  /\ SamplerAtRest
  /\ MIN_DEGREE \in MinDegrees
  /\ SIZE \in 1..MaxSize
  /\ layout \in Layouts
  /\ intrinsicMatrix = <<1, 0>>
  /\ depth_intrinsics_ = <<1, 0>>
  /\ \E v \in [1..3 * SIZE -> {0, 1}] :
       global_matrix_ = [n \in 1..4 * SIZE |-> IF n <= 3 * SIZE THEN v[n] ELSE 0]
  /\ pose = 0
  /\ transform = 0
  /\ delta = <<1, 0>>
  /\ solve_pc = "posed"
  /\ nSolve = 1
  /\ snap = [pose |-> 0, global |-> global_matrix_, K |-> intrinsicMatrix]
  /\ functor_x = <<>>

\* TransformDistortionError::operator() on the memory of the stored model,
\* lines 526-568
EvaluateFunctor ==
  /\ solve_pc \in {"posed", "celled"}
  /\ functor_x' = FunctorX(global_matrix_)
  /\ UNCHANGED <<calibration, pose, shape, intrinsicMatrix, depth_intrinsics_,
                 global_matrix_, transform, delta, solve_pc, nSolve, snap>>

NextCell ==
  \/ EvaluateFunctor
  \/ WriteCell

SpecCell == InitCell /\ [][NextCell]_vars

\* ================================================================ addData_
\* addData_ with its cloud.  A coordinate is a fraction <<n, d>>, d > 0, in
\* lowest terms, or NaN; a point is <<x, y, z>>; a cloud is organized, as
\* at(column, row) wants it: its points are stored row after row.

NaN == <<0, 0>>
Num(v) == <<v, 1>>

RECURSIVE Gcd(_, _)
Gcd(a, b) == IF b = 0 THEN a ELSE Gcd(b, a % b)

Abs(v) == IF v < 0 THEN -v ELSE v

\* n / d in lowest terms
Frac(n, d) ==
  LET g == Gcd(Abs(n), d) IN <<n \div g, d \div g>>

\* a + b and a / count
Plus(a, b) ==
  IF a = NaN \/ b = NaN THEN NaN
  ELSE Frac(a[1] * b[2] + b[1] * a[2], a[2] * b[2])

Over(a, count) == IF a = NaN THEN NaN ELSE Frac(a[1], a[2] * count)

zero == <<Num(0), Num(0), Num(0)>>
bad_point == <<NaN, NaN, NaN>>

\* pcl::isFinite
isFinite(p) == p[1] # NaN /\ p[2] # NaN /\ p[3] # NaN

\* c.at(column, row), both from 0
At(c, column, row) == c.points[row * c.width + column + 1]

\* the sizes <<width, height>> and the ratios the callers use
CloudSizes == {<<2, 4>>, <<3, 4>>, <<2, 5>>}
Ratios == {0, 1, 2}

\* the point at place n of an input cloud is finite or it is not: a finite
\* one is told apart by its place, one that is not has NaN in one coordinate
\* or in all three
FinitePoint(n) == <<Num(n), Num(2 * n), Num(1)>>
NonFinitePoint(n) == IF n % 2 = 0 THEN bad_point ELSE <<Num(n), NaN, Num(1)>>

Clouds ==
  { [width |-> s[1], height |-> s[2], is_dense |-> d,
     points |-> [n \in 1..s[1] * s[2] |->
                   IF n \in F THEN FinitePoint(n) ELSE NonFinitePoint(n)]] :
      s \in CloudSizes, d \in BOOLEAN, F \in SUBSET (1..10) }

\* lines 136-150: new_cloud->at(j, i) and count after the first n points of
\* the block of column j = col and row i = row, di being the slow index and
\* dj the fast one
RECURSIVE BlockSum(_, _, _, _, _)
BlockSum(c, r, col, row, n) ==
  IF n = 0 THEN [at |-> zero, count |-> 0]
  ELSE LET before == BlockSum(c, r, col, row, n - 1)
           di == (n - 1) \div r
           dj == (n - 1) % r
           p == At(c, col * r + dj, row * r + di)
       IN IF isFinite(p)
            THEN [at |-> <<Plus(before.at[1], p[1]), Plus(before.at[2], p[2]),
                           Plus(before.at[3], p[3])>>,
                  count |-> before.count + 1]
            ELSE before

\* the output pixel with the sum divided by the number of points of the
\* block, finite or not
Pixel_OverBlockSize(c, r, col, row) ==
  LET s == BlockSum(c, r, col, row, r * r)
  IN IF s.count > 0
       THEN [at |-> <<Over(s.at[1], r * r), Over(s.at[2], r * r),
                      Over(s.at[3], r * r)>>,
             dense |-> TRUE]
       ELSE [at |-> bad_point, dense |-> FALSE]

\* lines 136-162: the output pixel (j, i) and whether it leaves the cloud
\* dense
Pixel(c, r, col, row) ==
  LET s == BlockSum(c, r, col, row, r * r)
  IN IF s.count > 0
       THEN [at |-> <<Over(s.at[1], s.count), Over(s.at[2], s.count),
                      Over(s.at[3], s.count)>>,
             dense |-> TRUE]
       ELSE [at |-> bad_point, dense |-> FALSE]

\* lines 121-164: the cloud built for ratio r > 1
DownSample(c, r) ==
  LET size == Len(c.points) \div (r * r)
      width == c.width \div r
      height == c.height \div r
  IN [width |-> width,
      height |-> height,
      is_dense |-> c.is_dense /\ \A row \in 0..height - 1, col \in 0..width - 1 :
                                    Pixel(c, r, col, row).dense,
      points |-> [n \in 1..size |->
                    IF n <= width * height
                      THEN Pixel(c, r, (n - 1) % width, (n - 1) \div width).at
                      ELSE zero]]

\* lines 119-170: what setDepthData is given
DepthData(c, r) == IF r > 1 THEN DownSample(c, r) ELSE c

\* Calibration declares no constructor: ratio_ holds whatever was in memory
InitData ==
  /\ SolverAtRest
  /\ color_sensor_ = "parent"
  /\ estimate_depth_und_model_ = FALSE
  /\ estimate_initial_trasform_ = FALSE
  /\ depth_undistortion_estimation_ = NullEstimation
  /\ data_vec_ = <<>>
  /\ cb_views_vec_ = <<>>
  /\ depth_data_vec_ = <<>>
  /\ pose = "given"
  /\ pc = "idle"
  /\ i = 0
  /\ init_views = <<>>
  /\ calib = NoCalib
  /\ iter = <<>>
  /\ priv = <<>>
  /\ und_cb_views_vec = <<>>
  /\ und_src = <<>>
  /\ calls = <<>>
  /\ optArg = <<>>
  /\ countBefore = 0
  /\ dropped = {}
  /\ localDone = FALSE
  /\ reverseDone = FALSE
  /\ fault = "none"
  /\ NDEBUG \in BOOLEAN
  /\ ratio_ \in Ratios
  /\ ratio_set = FALSE
  /\ cloud \in Clouds
  /\ depth_data = NoData

\* what addData_ and setDownSampleRatio leave alone
ingestion ==
  <<config, depth_undistortion_estimation_, cb_views_vec_, depth_data_vec_,
    pose, ploop, oloop, calls, dropped, fits, solver, NDEBUG, cloud>>

\* setDownSampleRatio: assert(ratio > 0); ratio_ = ratio
setDownSampleRatio ==
  /\ pc = "idle"
  /\ \E ratio \in Ratios :
       IF ~NDEBUG /\ ~(ratio > 0)
         THEN /\ Abort("assert_ratio")
              /\ UNCHANGED <<ratio_, ratio_set>>
         ELSE /\ ratio_' = ratio
              /\ ratio_set' = TRUE
              /\ UNCHANGED <<pc, fault>>
  /\ UNCHANGED <<ingestion, data_vec_, depth_data>>

\* addData_ on the cloud of the caller
addData_ ==
  /\ pc = "idle"
  /\ Len(data_vec_) < MaxLen
  /\ depth_data' = DepthData(cloud, ratio_)
  /\ data_vec_' = Append(data_vec_, Len(data_vec_) + 1)
  /\ UNCHANGED <<ingestion, ratio_, ratio_set, pc, fault>>

NextData ==
  \/ setDownSampleRatio
  \/ addData_

SpecData == InitData /\ [][NextData]_vars

\* ------------------------------------------------------------ claim helpers
PerformPcs ==
  {"p_init", "p_branch", "p_ingest", "p_reverse", "p_global", "p_drop",
   "p_estimate", "p_return"}

OptimizePcs == {"o_loop", "o_transform", "o_return"}

\* the undistortion branch of perform() is running
InPipeline ==
  /\ estimate_depth_und_model_
  /\ pc \in {"p_ingest", "p_reverse", "p_global", "p_drop", "p_return"}

\* the drop loop of perform() has gone over every slot
PipelineDone ==
  /\ estimate_depth_und_model_
  /\ \/ pc = "p_drop" /\ i > Len(cb_views_vec_)
     \/ pc = "p_return"

\* optimize() has handed the working copies to optimizeAll
HandedToOptimizeAll == estimate_depth_und_model_ /\ pc = "o_return"

Repeat(x, n) == [k \in 1..n |-> x]

IsPrefix(s, t) == Len(s) <= Len(t) /\ SubSeq(t, 1, Len(s)) = s

Called(f) == \E k \in DOMAIN calls : calls[k] = f

Count == Cardinality(NonNull(cb_views_vec_))

\* the calls of the running perform() after its initial estimate, if any
AfterInitialEstimate ==
  IF calls # <<>> /\ Head(calls) = "estimateInitialTransform"
    THEN Tail(calls) ELSE calls

\* the calls of the undistortion branch of perform() over n slots, in order
PhaseOrder(n) ==
  Repeat("addDepthData", n)
    \o <<"estimateLocalModel", "estimateLocalModelReverse",
         "estimateGlobalModel">>
    \o Repeat("drop", n)
    \o <<"estimateTransform">>

\* the DepthData the running perform() ingested from slot k
OwnDepthData(k) ==
  depth_data_vec_[Len(depth_data_vec_) - Len(cb_views_vec_) + k]

\* ---------------------------------------------------------------------- C1
\* C1: optimizeAll is called, and the copy loop that feeds it reads
\* depth_data_vec_, only after estimateLocalModel and
\* estimateLocalModelReverse have completed in an earlier perform().
\* Violated: optimize() tests nothing but estimate_depth_und_model_.
C1_FullOptimizerOnlyAfterLocalFit ==
  /\ Called("optimizeAll") => localDone /\ reverseDone
  /\ (pc = "o_loop" /\ \E k \in DOMAIN iter : iter[k] = "built")
       => localDone /\ reverseDone

\* ---------------------------------------------------------------------- C2
\* C2: in perform() with undistortion estimation enabled the calls made so
\* far are always a beginning of: addDepthData for every slot,
\* estimateLocalModel, estimateLocalModelReverse, estimateGlobalModel, the
\* drop loop over every slot, estimateTransform(cb_views_vec_); when perform()
\* returns they are the whole of it; and no view has been dropped before
\* estimateGlobalModel has returned.
C2_PhasesInFixedOrder ==
  InPipeline =>
    /\ IsPrefix(AfterInitialEstimate, PhaseOrder(Len(cb_views_vec_)))
    /\ pc = "p_return" => AfterInitialEstimate = PhaseOrder(Len(cb_views_vec_))
    /\ pc \in {"p_ingest", "p_reverse", "p_global"} => Count = countBefore

\* a perform() over two frames that ran its initial estimate and the whole
\* undistortion branch
C2_Witness ==
  /\ InPipeline
  /\ pc = "p_return"
  /\ Len(cb_views_vec_) >= 2
  /\ Head(calls) = "estimateInitialTransform"

\* ---------------------------------------------------------------------- C3
\* C3: a slot of cb_views_vec_ that perform() has reset stays empty and is
\* not dereferenced by the ingest loop of a later perform().
\* Violated: the next perform() runs extractAll on cb_views_vec_ again and
\* dereferences every slot.
C3_DroppedSlotStaysNull ==
  \A k \in dropped :
    /\ k \in DOMAIN cb_views_vec_
    /\ ~cb_views_vec_[k].valid
    /\ ~(fault = "ingest_null_view" /\ i = k)

\* ---------------------------------------------------------------------- C4
\* C4: when the drop loop of perform() is over, slot k is non-empty exactly
\* when the re-fit of the plane of the depth data ingested from it succeeded,
\* and a surviving view carries the re-estimated plane of that depth data.
\* Violated: the loop tests depth_data_vec_[k], which is the depth data of
\* slot k only in the first perform().
C4_SurvivorsAreTheRefittedViews ==
  PipelineDone =>
    \A k \in DOMAIN cb_views_vec_ :
      /\ cb_views_vec_[k].valid <=> OwnDepthData(k).plane_extracted_
      /\ cb_views_vec_[k].valid =>
           cb_views_vec_[k].plane = OwnDepthData(k).estimated_plane_

\* What the drop loop does establish, in every perform(): slot k is non-empty
\* exactly when depth_data_vec_[k] has its plane extracted, and a surviving
\* view carries the re-estimated plane of depth_data_vec_[k].
C4_SlotFollowsIndexedDepthData ==
  PipelineDone =>
    \A k \in DOMAIN cb_views_vec_ :
      /\ cb_views_vec_[k].valid <=> depth_data_vec_[k].plane_extracted_
      /\ cb_views_vec_[k].valid =>
           cb_views_vec_[k].plane = depth_data_vec_[k].estimated_plane_

\* ---------------------------------------------------------------------- C5
\* C5: during and after the drop loop of perform() the number of non-empty
\* views is at most what it was when the undistortion pipeline began, and no
\* step of the drop loop or of optimize() increases it.
C5_CountNeverIncreases ==
  /\ [](PipelineDone \/ (InPipeline /\ pc = "p_drop") => Count <= countBefore)
  /\ [][(pc = "p_drop" \/ pc \in OptimizePcs \/ pc' \in OptimizePcs)
          => Cardinality(NonNull(cb_views_vec_')) <= Count]_vars

\* an optimize() that handed a copy to the optimizer after perform() had
\* dropped a view
C5_Witness ==
  /\ pc = "o_return"
  /\ optArg # <<>>
  /\ \E k \in dropped : k \in DOMAIN cb_views_vec_ /\ ~cb_views_vec_[k].valid

\* ---------------------------------------------------------------------- C6
\* C6: the ingest loop of perform() does not dereference an empty slot that
\* extractAll returned.
\* Violated: line 208 dereferences every slot.
C6_EmptySlotNotDereferenced == fault # "ingest_null_view"

\* ---------------------------------------------------------------------- C7
\* C7: optimize() branches on estimate_depth_und_model_ only: with the flag
\* set it calls optimizeAll, once, on the working copies and never
\* optimizeTransform; otherwise it calls optimizeTransform, once, on
\* cb_views_vec_ and never optimizeAll.
C7_OptimizeDispatchesOnFlag ==
  /\ pc = "o_loop" => estimate_depth_und_model_
  /\ pc = "o_transform" => ~estimate_depth_und_model_
  /\ pc \in {"o_loop", "o_transform"} => calls = <<>>
  /\ pc = "o_return" =>
       IF estimate_depth_und_model_
         THEN /\ calls = <<"optimizeAll">>
              /\ optArg = und_cb_views_vec
              /\ \A j \in DOMAIN optArg : optArg[j].undistorted
         ELSE /\ calls = <<"optimizeTransform">>
              /\ optArg = cb_views_vec_

\* optimizeAll has been called on two working copies
C7_Witness ==
  /\ HandedToOptimizeAll
  /\ calls = <<"optimizeAll">>
  /\ Len(optArg) >= 2

\* ---------------------------------------------------------------------- C8
\* C8: the vector handed to optimizeAll holds one working copy for each
\* non-empty slot of cb_views_vec_ and nothing else, and each copy is the
\* source view with the undistorted cloud and the re-estimated plane of the
\* DepthData at the index of its slot.
\* Violated: depth_data_vec_ is read at the index of the slot without a test
\* of its length.
C8_OneCopyPerNonNullView ==
  HandedToOptimizeAll =>
    /\ Len(optArg) = Count
    /\ {und_src[j] : j \in DOMAIN und_src} = NonNull(cb_views_vec_)
    /\ \A j \in DOMAIN optArg :
         /\ und_src[j] \in DOMAIN depth_data_vec_
         /\ optArg[j] = UndistortedCopy(cb_views_vec_[und_src[j]],
                                        depth_data_vec_[und_src[j]])

\* What the copy loop does establish, for every interleaving: one copy per
\* non-empty slot and nothing else, each built from its source view and from
\* what depth_data_vec_ yields at the index of the slot.
C8_OneCopyPerNonNullSlot ==
  HandedToOptimizeAll =>
    /\ Len(optArg) = Count
    /\ {und_src[j] : j \in DOMAIN und_src} = NonNull(cb_views_vec_)
    /\ \A j \in DOMAIN optArg :
         \E d \in DepthDataAt(und_src[j]) :
           optArg[j] = UndistortedCopy(cb_views_vec_[und_src[j]], d)

\* optimize() does not write cb_views_vec_
C8_SourceSlotsUnchanged ==
  [][(pc \in OptimizePcs) => (cb_views_vec_' = cb_views_vec_)]_vars

\* ---------------------------------------------------------------------- C9
\* C9: the working copies handed to optimizeAll are in the order of the
\* indices of their source slots, whatever the interleaving of the workers.
\* Violated: each worker appends its copy in a critical section.
C9_CopiesInIndexOrder ==
  HandedToOptimizeAll =>
    \A a, b \in DOMAIN und_src : a < b => und_src[a] < und_src[b]

\* --------------------------------------------------------------------- C10
\* C10 as stated: the last call of perform() is the transform-only optimizer.
C10_PerformEndsWithOptimizeTransform ==
  pc = "p_return" => calls[Len(calls)] = "optimizeTransform"

\* C10, amended: the last call of perform() is estimateTransform on
\* cb_views_vec_, the plane-based extrinsic calibration over one color and
\* one depth observation per non-empty slot; perform() calls no optimizer.
C10_PerformEndsWithEstimateTransform ==
  /\ pc \in PerformPcs => ~Called("optimizeTransform") /\ ~Called("optimizeAll")
  /\ pc = "p_return" =>
       /\ calls[Len(calls)] = "estimateTransform"
       /\ calib.size = Count
       /\ Len(calib.obs) = 2 * Count
       /\ \A j \in DOMAIN calib.obs :
            /\ calib.obs[j].view.valid
            /\ \E k \in NonNull(cb_views_vec_) :
                 calib.obs[j].view = cb_views_vec_[k]

\* perform() returns from the undistortion branch with one view dropped and
\* one kept
C10_Witness ==
  /\ PipelineDone
  /\ pc = "p_return"
  /\ Count = 1
  /\ Len(cb_views_vec_) = 2

\* --------------------------------------------------------------------- C11
\* C11 as stated: perform() runs estimateInitialTransform exactly when the
\* color sensor has no pose relative to a parent yet.
C11_BootstrapIffNoPose ==
  /\ pc = "p_init" => color_sensor_ = "noparent"
  /\ pc \in PerformPcs \ {"p_init"} =>
       (Called("estimateInitialTransform") <=> color_sensor_ = "noparent")

\* C11, amended: perform() runs estimateInitialTransform exactly when
\* estimate_initial_trasform_ is set or the color sensor has no parent; it
\* runs it first, before extractAll, the undistortion phases and
\* estimateTransform(cb_views_vec_), and once; otherwise it is skipped.
C11_BootstrapIffFlagOrNoParent ==
  /\ pc = "p_init" =>
       /\ estimate_initial_trasform_ \/ color_sensor_ = "noparent"
       /\ calls = <<>>
  /\ pc \in PerformPcs \ {"p_init"} =>
       (Called("estimateInitialTransform")
          <=> (estimate_initial_trasform_ \/ color_sensor_ = "noparent"))
  /\ pc \in PerformPcs =>
       \A k \in DOMAIN calls :
         calls[k] = "estimateInitialTransform" => k = 1

\* perform() has run the initial estimate, first, on a color sensor that has
\* a parent, and has gone through the undistortion branch after it
C11_Witness ==
  /\ pc = "p_return"
  /\ color_sensor_ = "parent"
  /\ estimate_initial_trasform_
  /\ Len(calls) > 2
  /\ Head(calls) = "estimateInitialTransform"

\* --------------------------------------------------------------------- C12
\* a solve is running: between the start of optimizeAll and its return
InSolve == solve_pc \in {"built", "solved", "posed", "celled", "done"}

\* the stored global model is the refined version: the three fitted cells
\* and the cell derived from them are all in place
Refined(g) == Polynomial(g, 1, 1) = OptimizeAllX(g)

\* C12: during one optimizeAll the stored global model and the color sensor
\* pose keep the values they had when the solve began, until the solve
\* (ceres::Solve) has finished; after it each of them is either still the
\* value of the snapshot or the refined version, never something in between.
\* Violated: the memory of the stored global model is a parameter block of
\* the problem (line 692), so the solver writes the three fitted cells in
\* place while it runs, and cell (1, 1) follows in a separate statement
\* (line 759) after the pose has been written (line 728).
C12_StoredModelIsSnapshotDuringSolve ==
  InSolve =>
    /\ solve_pc \in {"built", "solved"} =>
         global_matrix_ = snap.global /\ pose = snap.pose
    /\ global_matrix_ = snap.global \/ Refined(global_matrix_)

\* --------------------------------------------------------------------- C13
\* the places <<column, row>> of the finite points of the r-by-r block of
\* the output pixel (col, row)
FiniteOfBlock(c, r, col, row) ==
  { q \in (col * r..col * r + r - 1) \X (row * r..row * r + r - 1) :
      isFinite(At(c, q[1], q[2])) }

\* the sum of coordinate n over the places S of the cloud c
RECURSIVE SumOver(_, _, _)
SumOver(c, S, n) ==
  IF S = {} THEN Num(0)
  ELSE LET q == CHOOSE q \in S : TRUE
       IN Plus(At(c, q[1], q[2])[n], SumOver(c, S \ {q}, n))

\* the component-wise mean of the points of c at the places S
MeanOver(c, S) ==
  [n \in 1..3 |-> Over(SumOver(c, S, n), Cardinality(S))]

\* out is what the claim asks of the stored cloud for the input c and ratio r
BlockMeans(c, r, out) ==
  /\ r > 1 =>
       \A row \in 0..out.height - 1, col \in 0..out.width - 1 :
         LET S == FiniteOfBlock(c, r, col, row)
         IN /\ S # {} => At(out, col, row) = MeanOver(c, S)
            /\ S = {} => At(out, col, row) = bad_point /\ ~out.is_dense
  /\ r = 1 => out = c

\* C13: every addData_ stores, for a ratio r > 1, a cloud whose pixel (j, i)
\* is the component-wise mean of the k finite points of the r-by-r input
\* block at columns j*r..j*r+r-1 and rows i*r..i*r+r-1 when k > 0, and the
\* NaN point, the cloud flagged non-dense, when k = 0; for r = 1 it stores
\* the input cloud unchanged.
C13_StoredCloudIsBlockMean ==
  [][(data_vec_' # data_vec_) => BlockMeans(cloud, ratio_, depth_data')]_vars

\* a cloud was down-sampled by 2: one pixel is the NaN point, another the
\* mean of two or more points that is not a whole number
C13_Witness ==
  /\ ratio_ = 2
  /\ depth_data # NoData
  /\ depth_data.width = cloud.width \div 2
  /\ ~depth_data.is_dense
  /\ \E n \in 1..depth_data.width * depth_data.height :
       depth_data.points[n] = bad_point
  /\ \E n \in 1..depth_data.width * depth_data.height :
       depth_data.points[n] # bad_point /\ depth_data.points[n][1][2] = 2

\* --------------------------------------------------------------------- C14
\* C14: when optimizeAll has made its last write, the color sensor pose is
\* the refined one, cell (1, 1) of the stored global model holds the
\* coefficients solved from cells (0, 0), (0, 1) and (1, 0), and the stored
\* depth intrinsics are (fx * delta[0], cx + delta[2]) for the delta of this
\* solve and the intrinsics (fx, cx) this solve used, those of the camera
\* model of the depth sensor (line 578).
\* Violated: lines 762-765 apply the delta to depth_intrinsics_, which a
\* former optimizeAll has already moved away from the camera model.
C14_AllResultsWrittenBack ==
  solve_pc = "done" =>
    /\ pose = transform
    /\ Polynomial(global_matrix_, 1, 1) = OptimizeAllX(global_matrix_)
    /\ depth_intrinsics_ = ApplyDelta(snap.K, delta)

\* what does hold of the three: the pose and the cell
C14_PoseAndCellWrittenBack ==
  solve_pc = "done" =>
    /\ pose = transform
    /\ Polynomial(global_matrix_, 1, 1) = OptimizeAllX(global_matrix_)

\* --------------------------------------------------------------------- C15
\* inside the loop of estimateInitialTransform: i draws were made, each gave
\* zero or one view, and no more than 10 views are held; a further draw is
\* made only on a data_vec_ that is not empty and while fewer than 10 views
\* are held; what is passed on holds at most 10 views
DrawsBounded ==
  /\ pc = "p_init" =>
       /\ i <= Len(data_vec_)
       /\ Len(init_views) <= i
       /\ Len(init_views) <= MaxInitViews
       /\ ENABLED InitialDraw =>
            Len(data_vec_) > 0 /\ Len(init_views) < MaxInitViews
  /\ pc = "p_branch" =>
       calib.size <= MaxInitViews /\ Len(calib.obs) <= 2 * MaxInitViews

\* C15: estimateInitialTransform terminates on every data_vec_, the empty
\* one included: it makes at most |data_vec_| draws, never takes rand()
\* modulo zero, stops drawing as soon as 10 views are held, and hands at most
\* 10 views to estimateTransform.
C15_InitialEstimateTerminates ==
  /\ []DrawsBounded
  /\ <>(pc = "p_branch")

\* 10 views are held after 10 draws and a frame is left: the loop stops
C15_Witness ==
  /\ pc = "p_init"
  /\ Len(init_views) = MaxInitViews
  /\ i < Len(data_vec_)

\* --------------------------------------------------------------------- C16
\* estimateInitialTransform returns to perform()
InitialEstimateReturns == pc = "p_init" /\ pc' # "p_init"

\* C16: when the loop of estimateInitialTransform ends with fewer than 3
\* views accepted, none included, nothing is raised and the run is not
\* aborted: the plane-based calibration is built from exactly the accepted
\* views and performed, and perform() goes on with its next step.
C16_TooFewViewsFailSilently ==
  /\ [][(InitialEstimateReturns /\ Len(init_views) < 3) =>
          /\ fault' = "none"
          /\ pc' = "p_branch"
          /\ calib' = EstimateTransform(init_views)
          /\ calib'.size = Len(init_views)
          /\ calls' = Append(calls, "estimateInitialTransform")]_vars
  /\ [](pc = "p_branch" => ENABLED PerformExtract)

\* perform() is past an initial estimate made from one view only
C16_Witness ==
  /\ pc = "p_branch"
  /\ calls = <<"estimateInitialTransform">>
  /\ calib.size = 1
  /\ pose = "undefined"
  /\ fault = "none"

\* --------------------------------------------------------------------- C17
\* C17: a call of setDownSampleRatio with a non-positive ratio aborts and
\* stores nothing, so once setDownSampleRatio has returned the ratio that
\* addData_ reads is 1 or more.
\* Violated: the test is an assert, which a build with NDEBUG does not
\* contain; there the non-positive ratio is stored and the call returns.
C17_StoredRatioIsPositive ==
  ratio_set => ratio_ >= 1

\* what holds in a build that keeps the assert
C17_AssertingBuildStoresPositiveRatio ==
  (~NDEBUG /\ ratio_set) => ratio_ >= 1

\* --------------------------------------------------------------------- C18
\* C18: with undistortion estimation enabled, between the calls of the
\* driver depth_data_vec_ is as long as cb_views_vec_ and its element k is
\* the DepthData of the frame of the view in slot k; no loop reads
\* depth_data_vec_ past its end.
\* Violated: perform() pushes back onto depth_data_vec_ without clearing it
\* while extractAll replaces cb_views_vec_, and addCheckerboardViews grows
\* cb_views_vec_ alone.
C18_DepthDataPairedWithViews ==
  /\ fault # "depth_data_range"
  /\ (estimate_depth_und_model_ /\ pc = "idle") =>
       /\ Len(depth_data_vec_) = Len(cb_views_vec_)
       /\ \A k \in DOMAIN cb_views_vec_ :
            cb_views_vec_[k].valid =>
              depth_data_vec_[k].frame = cb_views_vec_[k].frame

\* --------------------------------------------------------------------- C19
IsValid(v) == v.valid

\* the non-null views of cb_views_vec_, in the order of their slots
NonNullViews == SelectSeq(cb_views_vec_, IsValid)

\* C19: when estimateTransform has run on cb_views_vec_ with k non-null
\* entries, the calibration holds 2 k observations: for the m-th non-null
\* view, m from 0, a color observation and then a depth observation, both
\* with index m; its size is k; the empty slots have no part in it.
C19_OneIndexedPairPerNonNullView ==
  pc = "p_return" =>
    LET k == Len(NonNullViews)
    IN /\ calib.size = k
       /\ Len(calib.obs) = 2 * k
       /\ \A m \in 1..k :
            /\ calib.obs[2 * m - 1] =
                 [index |-> m - 1, sensor |-> "color", view |-> NonNullViews[m]]
            /\ calib.obs[2 * m] =
                 [index |-> m - 1, sensor |-> "depth", view |-> NonNullViews[m]]

\* estimateTransform has run on a vector whose first slot is empty and whose
\* second is not
C19_Witness ==
  /\ pc = "p_return"
  /\ Len(cb_views_vec_) = 2
  /\ ~cb_views_vec_[1].valid
  /\ cb_views_vec_[2].valid
  /\ calib.size = 1

\* --------------------------------------------------------------------- C20
\* p4 is p2 + p3 - p1: coefficient by coefficient, and in value at 1..SIZE
IsSumMinusFirst(p4, p1, p2, p3) ==
  /\ p4 = [j \in 1..SIZE |-> p2[j] + p3[j] - p1[j]]
  /\ \A x \in 1..SIZE :
       Evaluate(p4, x) = Evaluate(p2, x) + Evaluate(p3, x) - Evaluate(p1, x)

\* C20: the cell the functor derives from the first three coefficient blocks
\* of its parameter block and the cell optimizeAll writes to
\* polynomial(1, 1) from cells (0, 0), (0, 1), (1, 0) are the same for the
\* same coefficients, and both are p2 + p3 - p1 at x = 1..SIZE, that is
\* c2 + c3 - c1.
C20_DerivedCellSameInBothPlaces ==
  /\ functor_x # <<>> =>
       IsSumMinusFirst(functor_x, Block(global_matrix_, 0),
                       Block(global_matrix_, 1), Block(global_matrix_, 2))
  /\ solve_pc = "celled" =>
       IsSumMinusFirst(Polynomial(global_matrix_, 1, 1),
                       Polynomial(global_matrix_, 0, 0),
                       Polynomial(global_matrix_, 0, 1),
                       Polynomial(global_matrix_, 1, 0))
  /\ (functor_x # <<>> /\ solve_pc = "celled") =>
       functor_x = Polynomial(global_matrix_, 1, 1)

\* both have derived the cell, from three cells that all differ, stored with
\* the first index running fastest
C20_Witness ==
  /\ solve_pc = "celled"
  /\ functor_x # <<>>
  /\ SIZE = 2
  /\ layout = "a_fastest"
  /\ Polynomial(global_matrix_, 0, 1) # Polynomial(global_matrix_, 1, 0)
  /\ Polynomial(global_matrix_, 0, 0) # Polynomial(global_matrix_, 0, 1)
  /\ Polynomial(global_matrix_, 0, 0) # Polynomial(global_matrix_, 1, 0)
  /\ functor_x[1] # 0 /\ functor_x[2] # 0

\* --------------------------------------------------------------------- C21
\* the stored cloud was built by down-sampling the cloud of the caller
DownSampled == depth_data # NoData /\ depth_data # cloud

\* the places of the input that the block of the output pixel (col, row)
\* reads, and the place of the output that is written, as indices of points
BlockReads(c, r, col, row) ==
  { (row * r + di) * c.width + (col * r + dj) + 1 :
      di \in 0..r - 1, dj \in 0..r - 1 }

PixelWrite(out, col, row) == row * out.width + col + 1

\* every read and every write of the loops of lines 132-163 is inside its
\* cloud
AccessesInBounds(c, r, out) ==
  \A row \in 0..out.height - 1, col \in 0..out.width - 1 :
    /\ BlockReads(c, r, col, row) \subseteq 1..Len(c.points)
    /\ \A q \in (col * r..col * r + r - 1) \X (row * r..row * r + r - 1) :
         q[1] < c.width /\ q[2] < c.height
    /\ PixelWrite(out, col, row) \in 1..Len(out.points)

\* C21: the cloud addData_ builds for a ratio r > 1 from a cloud of width W
\* and height H has width floor(W / r), height floor(H / r) and exactly
\* width * height points, and the loops read the input and write the output
\* inside their bounds, whether or not r divides W and H.
\* Violated: the points are sized by resize(cloud->size() / (ratio_ * ratio_))
\* (line 122), floor(W * H / r^2), which is more than
\* floor(W / r) * floor(H / r) when r does not divide W or H.
C21_DownSampledCloudHasWidthTimesHeightPoints ==
  DownSampled =>
    \E r \in Ratios :
      /\ r > 1
      /\ depth_data.width = cloud.width \div r
      /\ depth_data.height = cloud.height \div r
      /\ Len(depth_data.points) = depth_data.width * depth_data.height
      /\ AccessesInBounds(cloud, r, depth_data)

\* what does hold: the width, the height, and the reads and writes in bounds
C21_DimensionsAndAccessesInBounds ==
  DownSampled =>
    \E r \in Ratios :
      /\ r > 1
      /\ depth_data.width = cloud.width \div r
      /\ depth_data.height = cloud.height \div r
      /\ Len(depth_data.points) >= depth_data.width * depth_data.height
      /\ AccessesInBounds(cloud, r, depth_data)
====
